---- MODULE Spec2Model ----
(***************************************************************************)
(* Model of the X11 user-session helper of sddm (sddm-helper-x11):         *)
(*   - main() and the single-file XOrgUserHelper of HelperStartXorgUser    *)
(*     (src/unnamed/part_000),                                             *)
(*   - the XOrgUserHelper of src/src/helper-x11/xorguserhelper.cpp,        *)
(* both driven by the main() of part_000.  The variable impl says which    *)
(* of the two XOrgUserHelper classes the run is about.                     *)
(*                                                                         *)
(* The helper is single threaded: one Qt event loop, whose handlers run    *)
(* to completion.  start() is cut at its four calls (start, startServer,   *)
(* startDisplayCommand, startClient); no other handler runs in between.    *)
(* Every call of the code that the claims speak about is appended to the   *)
(* history variable log, in the order the code makes it.                   *)
(*                                                                         *)
(* QProcess, QCoreApplication and XAuth are not part of the sources; they  *)
(* are modelled by their documented behaviour:                             *)
(*   - QProcess::terminate()/kill() send SIGTERM/SIGKILL only while the    *)
(*     QProcess still holds a pid (state Running);                         *)
(*   - QProcess::waitForFinished() returns false at once on a QProcess     *)
(*     that is already NotRunning, emits finished() synchronously when     *)
(*     the child dies while it waits, returns false on a timeout;          *)
(*   - QCoreApplication::exit(code) only acts while exec() runs, the last  *)
(*     call decides the code; quit() is exit(0); aboutToQuit is emitted    *)
(*     after the loop has ended, then the deferred deletions run;          *)
(*   - ~QProcess on a process still Running kills it, waits and emits      *)
(*     finished().                                                         *)
(***************************************************************************)
EXTENDS Integers, Sequences, FiniteSets, TLC

VARIABLES
    pc,               \* where the helper process is
    impl,             \* which XOrgUserHelper class is compiled in
    serverCmd,        \* main(): --server value
    clientCmd,        \* main(): --client value
    helper,           \* the XOrgUserHelper object exists
    startupPosted,    \* the StartupEvent is in the event queue
    m_fd,             \* XOrgUserHelper::m_fd
    m_display,        \* XOrgUserHelper::m_display, a sequence of characters
    m_serverProcess,  \* XOrgUserHelper::m_serverProcess ("nullptr" or "server")
    m_clientProcess,  \* XOrgUserHelper::m_clientProcess ("nullptr" or "client")
    proc,             \* the QProcess objects and their children
    exitFlag,         \* QEventLoop: exit requested
    returnCode,       \* QEventLoop: the code exec() will return
    exitCode,         \* exit status of the helper process, once pc = "exited"
    authFile,         \* the authority file exists on disk
    authEntry,        \* display names of the cookies written to it
    pipeRead,         \* pipeFds[0]: "none", "open", "closed"
    pipeWrite,        \* pipeFds[1] in the helper: "none", "open", "closed"
    rawLine,          \* the bytes readPipe.readLine() returned
    chan,             \* the byte strings written to m_fd, in order
    startResult,      \* what start() returned: "none", "true", "false"
    stopCalls,        \* completed calls of stop()
    log,              \* history: the calls made, in order
    \* XorgUserDisplayServer (daemon side)
    m_started,        \* DisplayServer::m_started
    emitted,          \* the signals emitted, in order: "started", "stopped"
    calls,            \* history: the calls made on the object and what they returned
    \* MessageHandler
    sent,             \* history: the messages handed to the message handlers
    journalEnabled,   \* the static of isJournalEnabled(): "unset", "true", "false"
    fileIsOpen,       \* the static QFile of standardLogger() is open
    fileOpens,        \* history: the file.open() calls, <<mode, result>>
    journalOut,       \* what went to the journal
    fileOut,          \* what was written to the log file
    stdOut            \* what was printed on stdout

helperVars == <<pc, impl, serverCmd, clientCmd, helper, startupPosted, m_fd, m_display,
          m_serverProcess, m_clientProcess, proc, exitFlag, returnCode, exitCode,
          authFile, authEntry, pipeRead, pipeWrite, rawLine, chan, startResult,
          stopCalls, log>>

displayServerVars == <<m_started, emitted, calls>>

loggerVars == <<sent, journalEnabled, fileIsOpen, fileOpens, journalOut, fileOut, stdOut>>

vars == <<helperVars, displayServerVars, loggerVars>>

(***************************************************************************)
(* Bounds                                                                  *)
(***************************************************************************)
\* longest byte string the server writes to the handshake pipe in a whole session
MaxLine == 2
\* longest byte string the server writes when the handshake alone is run
MaxData == 3
\* how many times the harness of SpecApi calls the public stop()
MaxStops == 2

(***************************************************************************)
(* Program constants                                                       *)
(***************************************************************************)
\* "return 127" of main() and QCoreApplication::exit(127) of event()
NotManual == 127
\* EXIT_FAILURE of <cstdlib>, used by customEvent()
ExitFailure == 1
\* "int fd = -1" of main(), "int m_fd = -1" of the class
NoFd == -1
\* displayNumber.size() < 2
MinLine == 2

Impls == {"helper_x11", "HelperStartXorgUser"}

(***************************************************************************)
(* Sequences                                                               *)
(***************************************************************************)
NL == "\n"
Digits == {"0", "7"}
\* the bytes a server writes in a whole session, and when the handshake alone is run
Chars == {"7", NL}
WideChars == Digits \cup {" ", NL}

RECURSIVE SeqsUpTo(_, _)
SeqsUpTo(S, n) ==
    IF n = 0 THEN {<<>>}
    ELSE LET shorter == SeqsUpTo(S, n - 1)
         IN  shorter \cup {Append(s, c) : s \in {t \in shorter : Len(t) = n - 1}, c \in S}

\* what a display server may have written when the read returns
Bytes == SeqsUpTo(Chars, MaxLine)
WideBytes == SeqsUpTo(WideChars, MaxData)

\* QList::indexOf: position of the first x in s counted from 0, -1 when absent
RECURSIVE IndexFrom(_, _, _)
IndexFrom(s, x, i) ==
    IF i > Len(s) THEN -1
    ELSE IF s[i] = x THEN i - 1
    ELSE IndexFrom(s, x, i + 1)

indexOf(s, x) == IndexFrom(s, x, 1)

\* QList::operator[] with a position counted from 0
at(s, pos) == s[pos + 1]

(***************************************************************************)
(* main(): the command line                                                *)
(***************************************************************************)
Prog == "sddm-helper-x11"
FdVals == {"5", "0", "-1", "zz", ""}
ServerVals == {"X", ""}
ClientVals == {"session", ""}

Group(opt, vals) == {<<>>} \cup {<<opt, v>> : v \in vals}

Groups == [fd |-> Group("--fd", FdVals),
           server |-> Group("--server", ServerVals),
           client |-> Group("--client", ClientVals)]

Orders == {<<"fd", "server", "client">>, <<"fd", "client", "server">>,
           <<"server", "fd", "client">>, <<"server", "client", "fd">>,
           <<"client", "fd", "server">>, <<"client", "server", "fd">>}

\* an option given last, without its value
Dangling == {<<>>, <<"--fd">>, <<"--server">>, <<"--client">>}

\* the command lines tried: each option absent or given with a value, in any
\* order, possibly followed by an option that lacks its value
ArgvSet ==
    UNION {{<<Prog>> \o a \o b \o c \o t :
                a \in Groups[o[1]], b \in Groups[o[2]], c \in Groups[o[3]], t \in Dangling}
           : o \in Orders}

\* QString::toInt on the --fd values tried
toIntOk(s) == s \in {"5", "0", "-1"}
toInt(s) == CASE s = "5" -> 5 [] s = "0" -> 0 [] s = "-1" -> -1 [] OTHER -> 0

\* one "--opt value" lookup of main(): <<found the option last, value>>
optArg(args, opt) ==
    LET pos == indexOf(args, opt)
    IN  IF pos >= 0
        THEN IF pos >= Len(args) - 1
             THEN [bad |-> TRUE, val |-> ""]
             ELSE [bad |-> FALSE, val |-> at(args, pos + 1)]
        ELSE [bad |-> FALSE, val |-> ""]

parseArgs_noClientCheck(args) ==
    LET f == optArg(args, "--fd")
        s == optArg(args, "--server")
        c == optArg(args, "--client")
        none == [ret |-> NotManual, fd |-> NoFd, serverCmd |-> "", clientCmd |-> ""]
    IN  IF f.bad THEN none
        ELSE IF s.bad THEN none
        ELSE IF c.bad THEN [none EXCEPT !.serverCmd = s.val]
        ELSE IF s.val = ""
             THEN [none EXCEPT !.serverCmd = s.val, !.clientCmd = c.val]
        ELSE IF f.val # "" /\ ~toIntOk(f.val)
             THEN [none EXCEPT !.serverCmd = s.val, !.clientCmd = c.val]
        ELSE [ret |-> 0,
              fd |-> IF f.val # "" THEN toInt(f.val) ELSE NoFd,
              serverCmd |-> s.val, clientCmd |-> c.val]

\* the parse of main(): ret is NotManual on "return 127", 0 when main goes on
parseArgs(args) ==
    LET f == optArg(args, "--fd")
        s == optArg(args, "--server")
        c == optArg(args, "--client")
        none == [ret |-> NotManual, fd |-> NoFd, serverCmd |-> "", clientCmd |-> ""]
    IN  IF f.bad THEN none
        ELSE IF s.bad THEN none
        ELSE IF c.bad THEN [none EXCEPT !.serverCmd = s.val]
        ELSE IF s.val = "" \/ c.val = ""
             THEN [none EXCEPT !.serverCmd = s.val, !.clientCmd = c.val]
        ELSE IF f.val # "" /\ ~toIntOk(f.val)
             THEN [none EXCEPT !.serverCmd = s.val, !.clientCmd = c.val]
        ELSE [ret |-> 0,
              fd |-> IF f.val # "" THEN toInt(f.val) ELSE NoFd,
              serverCmd |-> s.val, clientCmd |-> c.val]

(***************************************************************************)
(* The state a handler works on: the variables it may change, and what it  *)
(* hands back (ret), as one record, so that a handler is the composition   *)
(* of the calls it makes.                                                  *)
(***************************************************************************)
Procs == {"server", "client", "cursor", "displayScript", "displayStopScript"}

\* a QProcess that was never started
NoProc == [os |-> "none", q |-> "NotRunning", code |-> 0, status |-> "NormalExit",
           del |-> FALSE]

\* how a wait on a child can end: it exits (0, 1, killed by a signal) or not in time
WaitOutcomes == {"exit0", "exit1", "crash", "timeout"}
\* how an auxiliary command can go
AuxOutcomes == {"failToStart", "exit0", "exit1", "timeout"}

ExitOf(r) == CASE r = "exit0" -> [code |-> 0, status |-> "NormalExit"]
               [] r = "exit1" -> [code |-> 1, status |-> "NormalExit"]
               [] OTHER -> [code |-> 9, status |-> "CrashExit"]

\* inExec: QCoreApplication::exec() is running; ubCrash: a null dereference
\* ends the process (the other outcome: it goes unnoticed)
World(inExec, ubCrash) ==
    [impl |-> impl, m_fd |-> m_fd, m_display |-> m_display,
     m_serverProcess |-> m_serverProcess, m_clientProcess |-> m_clientProcess,
     proc |-> proc, exitFlag |-> exitFlag, returnCode |-> returnCode,
     authFile |-> authFile, authEntry |-> authEntry,
     pipeRead |-> pipeRead, pipeWrite |-> pipeWrite, rawLine |-> rawLine,
     chan |-> chan, startResult |-> startResult, stopCalls |-> stopCalls,
     startupPosted |-> startupPosted, log |-> log,
     inExec |-> inExec, ubCrash |-> ubCrash,
     ret |-> TRUE, blocked |-> FALSE, crashed |-> FALSE]

Commit(w, next) ==
    /\ pc' = next
    /\ m_display' = w.m_display
    /\ m_serverProcess' = w.m_serverProcess
    /\ m_clientProcess' = w.m_clientProcess
    /\ proc' = w.proc
    /\ exitFlag' = w.exitFlag
    /\ returnCode' = w.returnCode
    /\ authFile' = w.authFile
    /\ authEntry' = w.authEntry
    /\ pipeRead' = w.pipeRead
    /\ pipeWrite' = w.pipeWrite
    /\ rawLine' = w.rawLine
    /\ chan' = w.chan
    /\ startResult' = w.startResult
    /\ stopCalls' = w.stopCalls
    /\ startupPosted' = w.startupPosted
    /\ log' = w.log
    /\ UNCHANGED <<impl, serverCmd, clientCmd, helper, m_fd>>
    /\ UNCHANGED <<displayServerVars, loggerVars>>

Log(w, kind, who) == [w EXCEPT !.log = Append(@, <<kind, who>>)]

(***************************************************************************)
(* QCoreApplication                                                        *)
(***************************************************************************)
\* QCoreApplication::exit(code): ends the running event loop with that code
exit(w, code) ==
    LET w1 == Log(w, IF code = 0 THEN "quit" ELSE "exit", "app")
    IN  IF w.inExec THEN [w1 EXCEPT !.exitFlag = TRUE, !.returnCode = code] ELSE w1

quit(w) == exit(w, 0)

(***************************************************************************)
(* QProcess                                                                *)
(***************************************************************************)
\* the child after a SIGKILL
Killed(r) ==
    IF r.os = "running" THEN [r EXCEPT !.os = "dead", !.code = 9, !.status = "CrashExit"]
    ELSE r

\* QProcess::terminate(): SIGTERM, if the QProcess still has a pid
terminate(w, p) ==
    LET w1 == Log(w, "terminate", p)
    IN  IF w.proc[p].q = "Running" THEN Log(w1, "SIGTERM", p) ELSE w1

\* QProcess::kill(): SIGKILL, if the QProcess still has a pid
kill(w, p) ==
    LET w1 == Log(w, "kill", p)
    IN  IF w.proc[p].q = "Running"
        THEN [Log(w1, "SIGKILL", p) EXCEPT !.proc[p] = Killed(@)]
        ELSE w1

\* the lambda startProcess() connects to finished() of every process it starts
finishedLambda(w, code, status) ==
    IF code # 0 \/ status # "NormalExit" THEN quit(w) ELSE w

\* the lambda the helper-x11 startClient() connects to finished() of the client;
\* with m_serverProcess == nullptr the call through it is undefined behaviour
clientFinishedLambda(w) ==
    IF w.m_serverProcess = "nullptr"
    THEN IF w.ubCrash
         THEN [Log(w, "nullDeref", "server") EXCEPT !.crashed = TRUE]
         ELSE quit(Log(w, "nullDeref", "server"))
    ELSE quit(terminate(Log(w, "sessionFinished", "client"), w.m_serverProcess))

\* QProcess emits finished(): the slots run in the order they were connected
emitFinished(w, p) ==
    LET w1 == [Log(w, "finished", p) EXCEPT !.proc[p].q = "NotRunning"]
        w2 == finishedLambda(w1, w.proc[p].code, w.proc[p].status)
    IN  IF p = "client" /\ w.impl = "helper_x11" THEN clientFinishedLambda(w2) ELSE w2

\* QProcess::waitForFinished(msecs); r says how the child behaves meanwhile
waitForFinished(w, p, r) ==
    IF w.proc[p].q # "Running"
    THEN [Log(w, "waitNotRunning", p) EXCEPT !.ret = FALSE]
    ELSE IF w.proc[p].os = "dead"
    THEN [emitFinished(Log(w, "waitDone", p), p) EXCEPT !.ret = TRUE]
    ELSE IF r # "timeout"
    THEN LET e == ExitOf(r)
             w1 == [Log(w, "waitDone", p) EXCEPT !.proc[p].os = "dead",
                                                !.proc[p].code = e.code,
                                                !.proc[p].status = e.status]
         IN  [emitFinished(w1, p) EXCEPT !.ret = TRUE]
    ELSE [Log(w, "waitTimeout", p) EXCEPT !.ret = FALSE]

\* a DeferredDelete event reaches the QProcess: ~QProcess kills a process that is
\* still Running, waits for it and emits finished()
destructor(w, p) ==
    IF w.crashed \/ ~w.proc[p].del THEN w
    ELSE IF w.proc[p].q = "Running"
    THEN LET w1 == [Log(w, "dtorKill", p) EXCEPT !.proc[p] = Killed(@)]
             w2 == emitFinished(w1, p)
         IN  [w2 EXCEPT !.proc[p].del = FALSE]
    ELSE [w EXCEPT !.proc[p].del = FALSE]

(***************************************************************************)
(* XAuth (its source is not part of the files at hand)                     *)
(***************************************************************************)
\* XAuth::setup(): the directory exists and a previous file is cleared
setup(w, ok) ==
    IF ok THEN [Log(w, "setup", "ok") EXCEPT !.authFile = FALSE, !.authEntry = {}]
    ELSE Log(w, "setup", "fail")

\* XAuth::addCookie(display): writes the cookie of that display to the file
addCookie(w, display, ok) ==
    IF ok
    THEN [Log(w, "addCookie", "ok") EXCEPT !.authFile = TRUE,
                                          !.authEntry = @ \cup {display},
                                          !.ret = TRUE]
    ELSE [Log(w, "addCookie", "fail") EXCEPT !.ret = FALSE]

(***************************************************************************)
(* XOrgUserHelper                                                          *)
(***************************************************************************)
\* startProcess(cmd, env, &p); ok: waitForStarted(10000) succeeds
startProcess(w, p, ok) ==
    IF ok
    THEN [Log(w, "spawn", p) EXCEPT !.proc[p] = [NoProc EXCEPT !.os = "running",
                                                              !.q = "Running"],
                                   !.ret = TRUE]
    ELSE [Log(w, "spawnFail", p) EXCEPT !.ret = FALSE]

\* QIODevice::readLine(): up to and with the first terminator, or all there is
readLine(data) ==
    LET i == indexOf(data, NL)
    IN  IF i >= 0 THEN SubSeq(data, 1, i + 1) ELSE data

resolve_keepsTerminator(displayNumber) == <<":">> \o displayNumber

\* displayNumber.prepend(":"); displayNumber.remove(displayNumber.size() - 1, 1)
resolve(displayNumber) ==
    LET d == <<":">> \o displayNumber
    IN  SubSeq(d, 1, Len(d) - 1)

\* displayNumber.size() < 2
malformed_lenient(displayNumber) == Len(displayNumber) < MinLine - 1

malformed(displayNumber) == Len(displayNumber) < MinLine

\* startServer() from the line read on, without the addCookie() of helper-x11
handshake_noCookie(w, displayNumber, cookieOk) ==
    LET w1 == [w EXCEPT !.rawLine = displayNumber]
    IN  IF malformed(displayNumber)
        THEN [Log(w1, "handshake", "malformed") EXCEPT !.pipeRead = "closed", !.ret = FALSE]
        ELSE LET w2 == [Log(w1, "handshake", "ok") EXCEPT !.m_display = resolve(displayNumber)]
                 w4 == IF w.m_fd > 0
                       THEN [Log(w2, "write", "fd") EXCEPT !.chan = Append(@, w2.m_display)]
                       ELSE w2
             IN  [w4 EXCEPT !.pipeRead = "closed", !.ret = TRUE]

\* startServer() from the line read on
handshake(w, displayNumber, cookieOk) ==
    LET w1 == [w EXCEPT !.rawLine = displayNumber]
    IN  IF malformed(displayNumber)
        THEN [Log(w1, "handshake", "malformed") EXCEPT !.pipeRead = "closed", !.ret = FALSE]
        ELSE LET w2 == [Log(w1, "handshake", "ok") EXCEPT !.m_display = resolve(displayNumber)]
                 w3 == IF w.impl = "helper_x11"
                       THEN addCookie(w2, w2.m_display, cookieOk)
                       ELSE [w2 EXCEPT !.ret = TRUE]
             IN  IF ~w3.ret THEN w3
                 ELSE LET w4 == IF w.m_fd > 0
                                THEN [Log(w3, "write", "fd") EXCEPT
                                          !.chan = Append(@, w2.m_display)]
                                ELSE w3
                      IN  [w4 EXCEPT !.pipeRead = "closed", !.ret = TRUE]

\* what the server has done with its end of the pipe when readLine() is called: it
\* wrote a whole line, it closed its end or exited without one, or neither
serverSide(in) ==
    IF indexOf(in.data, NL) >= 0 THEN "line"
    ELSE IF in.eof THEN "endOfData"
    ELSE "stalled"

\* a read that gives up and returns what is there
readBlocks_timesOut(w, in) == FALSE

\* the read blocks: no terminator yet, and no end of data (the write end is still
\* open in the server or in the helper)
readBlocks(w, in) ==
    indexOf(in.data, NL) < 0 /\ ~(in.eof /\ w.pipeWrite = "closed")

\* startServer() without its ::close(pipeFds[1])
startServer_keepsWriteEnd(w, in) ==
    IF ~in.pipeOk THEN [Log(w, "pipe", "fail") EXCEPT !.ret = FALSE]
    ELSE LET w1 == [w EXCEPT !.pipeRead = "open", !.pipeWrite = "open"]
             w2 == startProcess(w1, "server", in.spawnOk)
         IN  IF ~w2.ret THEN [w2 EXCEPT !.pipeRead = "closed"]
             ELSE LET w3 == [w2 EXCEPT !.m_serverProcess = "server"]
                  IN  IF ~in.openOk
                      THEN [Log(w3, "open", "fail") EXCEPT !.pipeRead = "closed",
                                                          !.ret = FALSE]
                      ELSE LET w4 == Log(w3, "read", serverSide(in))
                           IN  IF readBlocks(w4, in) THEN [w4 EXCEPT !.blocked = TRUE]
                               ELSE handshake(w4, readLine(in.data), in.cookieOk)

startServer(w, in) ==
    IF ~in.pipeOk THEN [Log(w, "pipe", "fail") EXCEPT !.ret = FALSE]
    ELSE LET w1 == [w EXCEPT !.pipeRead = "open", !.pipeWrite = "open"]
             w2 == startProcess(w1, "server", in.spawnOk)
         IN  IF ~w2.ret THEN [w2 EXCEPT !.pipeRead = "closed"]
             ELSE LET w3 == [w2 EXCEPT !.m_serverProcess = "server",
                                       !.pipeWrite = "closed"]
                  IN  IF ~in.openOk
                      THEN [Log(w3, "open", "fail") EXCEPT !.pipeRead = "closed",
                                                          !.ret = FALSE]
                      ELSE LET w4 == Log(w3, "read", serverSide(in))
                           IN  IF readBlocks(w4, in) THEN [w4 EXCEPT !.blocked = TRUE]
                               ELSE handshake(w4, readLine(in.data), in.cookieOk)

\* one auxiliary command of startDisplayCommand()/displayFinished():
\* startProcess, waitForFinished, kill on a timeout, deleteLater
runAux(w, p, o) ==
    LET w1 == startProcess(w, p, o # "failToStart")
    IN  IF ~w1.ret THEN w1
        ELSE LET w2 == waitForFinished(w1, p, o)
                 w3 == IF ~w2.ret THEN kill(w2, p) ELSE w2
             IN  [w3 EXCEPT !.proc[p].del = TRUE]

startDisplayCommand(w, in) ==
    runAux(runAux(Log(w, "env", "display"), "cursor", in.cursor), "displayScript", in.script)

startClient(w, ok) ==
    LET w1 == startProcess(Log(w, "env", "client"), "client", ok)
    IN  IF ~w1.ret THEN w1 ELSE [w1 EXCEPT !.m_clientProcess = "client"]

displayFinished_keepsFile(w, o) ==
    runAux(Log(w, "env", "displayStop"), "displayStopScript", o)

displayFinished_removesFirst(w, o) ==
    LET w1 == [Log(Log(w, "env", "displayStop"), "remove", "authFile") EXCEPT
                   !.authFile = FALSE]
    IN  runAux(w1, "displayStopScript", o)

displayFinished(w, o) ==
    LET w1 == runAux(Log(w, "env", "displayStop"), "displayStopScript", o)
    IN  [Log(w1, "remove", "authFile") EXCEPT !.authFile = FALSE]

stopProcess_noKill(w, p, r) ==
    LET w1 == terminate(w, p)
        w2 == waitForFinished(w1, p, r)
    IN  [w2 EXCEPT !.proc[p].del = TRUE]

\* terminate(); if (!waitForFinished(5000)) kill(); deleteLater()
stopProcess(w, p, r) ==
    LET w1 == terminate(w, p)
        w2 == waitForFinished(w1, p, r)
        w3 == IF ~w2.ret THEN kill(w2, p) ELSE w2
    IN  [w3 EXCEPT !.proc[p].del = TRUE]

stop_clientOnly(w, in) ==
    LET w0 == Log(w, "stop", "begin")
        w1 == IF w0.m_clientProcess # "nullptr"
              THEN [stopProcess(w0, "client", in.client) EXCEPT !.m_clientProcess = "nullptr"]
              ELSE w0
    IN  [Log(w1, "stop", "end") EXCEPT !.stopCalls = @ + 1]

stop_serverFirst(w, in) ==
    LET w0 == Log(w, "stop", "begin")
        w1 == IF w0.m_serverProcess # "nullptr"
              THEN displayFinished([stopProcess(w0, "server", in.server) EXCEPT
                                        !.m_serverProcess = "nullptr"], in.script)
              ELSE w0
        w2 == IF w1.m_clientProcess # "nullptr"
              THEN [stopProcess(w1, "client", in.client) EXCEPT !.m_clientProcess = "nullptr"]
              ELSE w1
    IN  [Log(w2, "stop", "end") EXCEPT !.stopCalls = @ + 1]

stop_keepsHandle(w, in) ==
    LET w0 == Log(w, "stop", "begin")
        w1 == IF w0.m_clientProcess # "nullptr"
              THEN [stopProcess(w0, "client", in.client) EXCEPT !.m_clientProcess = "nullptr"]
              ELSE w0
        w2 == IF w1.m_serverProcess # "nullptr"
              THEN displayFinished(stopProcess(w1, "server", in.server), in.script)
              ELSE w1
    IN  [Log(w2, "stop", "end") EXCEPT !.stopCalls = @ + 1]

stop(w, in) ==
    LET w0 == Log(w, "stop", "begin")
        w1 == IF w0.m_clientProcess # "nullptr"
              THEN [stopProcess(w0, "client", in.client) EXCEPT !.m_clientProcess = "nullptr"]
              ELSE w0
        w2 == IF w1.m_serverProcess # "nullptr"
              THEN displayFinished([stopProcess(w1, "server", in.server) EXCEPT
                                        !.m_serverProcess = "nullptr"], in.script)
              ELSE w1
    IN  [Log(w2, "stop", "end") EXCEPT !.stopCalls = @ + 1]

\* customEvent()/event(): if (!start()) QCoreApplication::exit(...)
startFailed(w) ==
    LET w1 == [Log(w, "start", "false") EXCEPT !.startResult = "false"]
    IN  exit(w1, IF w.impl = "helper_x11" THEN ExitFailure ELSE NotManual)

startSucceeded(w) == [Log(w, "start", "true") EXCEPT !.startResult = "true"]

\* back in the event loop after the StartupEvent: the deferred deletions of the
\* auxiliary processes are delivered
eventReturn(w) == destructor(destructor(w, "cursor"), "displayScript")

\* the deferred deletions posted by stop()
stopDeletions(w) ==
    destructor(destructor(destructor(w, "client"), "server"), "displayStopScript")

(***************************************************************************)
(* Inputs of the handlers: what the environment does while they run.       *)
(* An input the code does not get to read is left at its first value.      *)
(***************************************************************************)
StartInputs == [setupOk : BOOLEAN, cookieOk : BOOLEAN]

ServerInputsOver(D) ==
    {in \in [pipeOk : BOOLEAN, spawnOk : BOOLEAN, openOk : BOOLEAN,
             data : D, eof : BOOLEAN, cookieOk : BOOLEAN] :
        /\ ~in.pipeOk => in.spawnOk
        /\ ~(in.pipeOk /\ in.spawnOk) => in.openOk
        /\ ~(in.pipeOk /\ in.spawnOk /\ in.openOk) => (in.data = <<>> /\ in.eof)
        /\ indexOf(in.data, NL) >= 0 => in.eof
        /\ (Len(readLine(in.data)) < MinLine \/ ~in.eof) => in.cookieOk}

ServerInputs == ServerInputsOver(Bytes)

DisplayInputs == [cursor : AuxOutcomes, script : AuxOutcomes]

\* how a child answers SIGTERM within the 5 s: it exits, dies of the signal, or not
StopOutcomes == {"exit0", "crash", "timeout"}

StopInputs == [client : StopOutcomes, server : StopOutcomes, script : AuxOutcomes]

\* the inputs of stop() that the state lets it read
StopInputsOf(w) ==
    {in \in StopInputs :
        /\ (w.m_clientProcess = "nullptr" \/ w.proc["client"].os # "running")
              => in.client = "exit0"
        /\ (w.m_serverProcess = "nullptr" \/ w.proc["server"].os # "running")
              => in.server = "exit0"
        /\ w.m_serverProcess = "nullptr" => in.script = "failToStart"}

\* only a client that outlives its SIGTERM is destroyed while still Running,
\* which is when its finished() is emitted after stop() cleared the handles
CanDeref(in) ==
    impl = "helper_x11" /\ m_clientProcess # "nullptr" /\ in.client = "timeout"

(***************************************************************************)
(* Initial state                                                           *)
(***************************************************************************)
\* a XorgUserDisplayServer as constructed; m_started is initialised in the class
\* declaration of DisplayServer
DisplayServerNew ==
    /\ m_started = FALSE
    /\ emitted = <<>>
    /\ calls = <<>>

\* the statics of MessageHandler.cpp before the first message
LoggerNew ==
    /\ sent = <<>>
    /\ journalEnabled = "unset"
    /\ fileIsOpen = FALSE
    /\ fileOpens = <<>>
    /\ journalOut = <<>>
    /\ fileOut = <<>>
    /\ stdOut = <<>>

Init ==
    /\ DisplayServerNew
    /\ LoggerNew
    /\ pc = "main"
    /\ impl \in Impls
    /\ serverCmd = ""
    /\ clientCmd = ""
    /\ helper = FALSE
    /\ startupPosted = FALSE
    /\ m_fd = NoFd
    /\ m_display = IF impl = "HelperStartXorgUser" THEN <<":", "0">> ELSE <<>>
    /\ m_serverProcess = "nullptr"
    /\ m_clientProcess = "nullptr"
    /\ proc = [p \in Procs |-> NoProc]
    /\ exitFlag = FALSE
    /\ returnCode = 0
    /\ exitCode = 0
    /\ authFile \in BOOLEAN
    /\ authEntry = {}
    /\ pipeRead = "none"
    /\ pipeWrite = "none"
    /\ rawLine = <<>>
    /\ chan = <<>>
    /\ startResult = "none"
    /\ stopCalls = 0
    /\ log = <<<<"authFileAtStart", IF authFile THEN "present" ELSE "absent">>>>

(***************************************************************************)
(* Actions                                                                 *)
(***************************************************************************)
\* main() up to app.exec()
Main ==
    /\ pc = "main"
    /\ \E argv \in ArgvSet :
          LET r == parseArgs(argv)
          IN  /\ serverCmd' = r.serverCmd
              /\ clientCmd' = r.clientCmd
              /\ IF r.ret # 0
                 THEN /\ pc' = "exited"
                      /\ exitCode' = r.ret
                      /\ UNCHANGED <<helper, m_fd, startupPosted, log>>
                 ELSE /\ pc' = "exec"
                      /\ helper' = TRUE
                      /\ m_fd' = r.fd
                      /\ startupPosted' = TRUE
                      /\ log' = Append(log, <<"new", "helper">>)
                      /\ UNCHANGED exitCode
    /\ UNCHANGED <<impl, m_display, m_serverProcess, m_clientProcess, proc, exitFlag,
                   returnCode, authFile, authEntry, pipeRead, pipeWrite, rawLine, chan,
                   startResult, stopCalls>>
    /\ UNCHANGED <<displayServerVars, loggerVars>>

\* the StartupEvent is delivered: start() up to its call of startServer()
Start ==
    /\ pc = "exec"
    /\ startupPosted
    /\ ~exitFlag
    /\ \E in \in StartInputs :
          LET w0 == [World(TRUE, FALSE) EXCEPT !.startupPosted = FALSE]
              w1 == setup(Log(w0, "start", "begin"), in.setupOk)
              w2 == IF impl = "HelperStartXorgUser"
                    THEN addCookie(w1, w1.m_display, in.cookieOk)
                    ELSE w1
          IN  /\ (impl = "helper_x11" => in.cookieOk)
              /\ IF w2.ret
                 THEN Commit(w2, "startServer")
                 ELSE Commit(eventReturn(startFailed(w2)), "exec")
    /\ UNCHANGED exitCode

\* start(): startServer()
StartServer ==
    /\ pc = "startServer"
    /\ \E in \in ServerInputs :
          LET w == startServer(World(TRUE, FALSE), in)
          IN  /\ (impl = "HelperStartXorgUser" => in.cookieOk)
              /\ IF w.blocked THEN Commit(w, "blocked")
                 ELSE IF w.ret THEN Commit(w, "startDisplayCommand")
                 ELSE Commit(eventReturn(startFailed(w)), "exec")
    /\ UNCHANGED exitCode

\* start(): startDisplayCommand()
StartDisplayCommand ==
    /\ pc = "startDisplayCommand"
    /\ \E in \in DisplayInputs :
          Commit(startDisplayCommand(World(TRUE, FALSE), in), "startClient")
    /\ UNCHANGED exitCode

\* start(): startClient(), the return of start() and of the event handler
StartClient ==
    /\ pc = "startClient"
    /\ \E ok \in BOOLEAN :
          LET w == startClient(World(TRUE, FALSE), ok)
          IN  IF w.ret
              THEN Commit(eventReturn(startSucceeded(w)), "exec")
              ELSE Commit(eventReturn(startFailed(w)), "exec")
    /\ UNCHANGED exitCode

\* the server or the client process ends on its own (r says how) and the event
\* loop notices it: QProcess emits finished()
Finished ==
    /\ pc = "exec"
    /\ ~exitFlag
    /\ ~startupPosted
    /\ \E p \in {"server", "client"}, r \in WaitOutcomes \ {"timeout"} :
          /\ proc[p].q = "Running"
          /\ proc[p].os = "running"
          /\ LET w0 == World(TRUE, FALSE)
                 w1 == [w0 EXCEPT !.proc[p].os = "dead",
                                  !.proc[p].code = ExitOf(r).code,
                                  !.proc[p].status = ExitOf(r).status]
             IN  Commit(emitFinished(w1, p), "exec")
    /\ UNCHANGED exitCode

\* SIGINT or SIGTERM: SignalHandler's signal is connected to QCoreApplication::quit
SignalReceived ==
    /\ pc = "exec"
    /\ ~exitFlag
    /\ ~startupPosted
    /\ Commit(quit(Log(World(TRUE, FALSE), "signal", "app")), "exec")
    /\ UNCHANGED exitCode

\* exec() returns: aboutToQuit runs stop() and helper->deleteLater(), the deferred
\* deletions are delivered, main() returns the code of exec()
AboutToQuit ==
    /\ pc = "exec"
    /\ exitFlag
    /\ \E ubCrash \in BOOLEAN :
          LET w0 == Log(World(FALSE, ubCrash), "aboutToQuit", "app")
          IN  \E in \in StopInputsOf(w0) :
                 LET w == stopDeletions(stop(w0, in))
                 IN  /\ (ubCrash => CanDeref(in))
                     /\ (ubCrash => w.crashed)
                     /\ Commit(w, IF w.crashed THEN "crashed" ELSE "exited")
    /\ exitCode' = returnCode

\* a caller other than main() calls the public stop() from a handler of the loop
CallStop ==
    /\ pc = "exec"
    /\ helper
    /\ ~exitFlag
    /\ stopCalls < MaxStops
    /\ \E ubCrash \in BOOLEAN :
          LET w0 == Log(World(TRUE, ubCrash), "callStop", "app")
          IN  \E in \in StopInputsOf(w0) :
                 LET w == stopDeletions(stop(w0, in))
                 IN  /\ (ubCrash => CanDeref(in))
                     /\ (ubCrash => w.crashed)
                     /\ Commit(w, IF w.crashed THEN "crashed" ELSE "exec")
    /\ UNCHANGED exitCode

Next ==
    \/ Main
    \/ Start
    \/ StartServer
    \/ StartDisplayCommand
    \/ StartClient
    \/ Finished
    \/ SignalReceived
    \/ AboutToQuit

Spec == Init /\ [][Next]_vars

\* the helper object used through its public interface: stop() may be called any
\* number of times, before start(), after it, and again by aboutToQuit
NextApi == Next \/ CallStop

SpecApi == Init /\ [][NextApi]_vars

\* the handshake alone, on a wider set of bytes: the state after the server was
\* spawned and the pipe opened, then the read and what startServer() makes of it
InitHandshake ==
    /\ DisplayServerNew
    /\ LoggerNew
    /\ pc = "readLine"
    /\ impl \in Impls
    /\ serverCmd = "X"
    /\ clientCmd = "session"
    /\ helper = TRUE
    /\ startupPosted = FALSE
    /\ m_fd \in {NoFd, 0, 5}
    /\ m_display = IF impl = "HelperStartXorgUser" THEN <<":", "0">> ELSE <<>>
    /\ m_serverProcess = "server"
    /\ m_clientProcess = "nullptr"
    /\ proc = [p \in Procs |-> IF p = "server"
                                THEN [NoProc EXCEPT !.os = "running", !.q = "Running"]
                                ELSE NoProc]
    /\ exitFlag = FALSE
    /\ returnCode = 0
    /\ exitCode = 0
    /\ authFile = (impl = "HelperStartXorgUser")
    /\ authEntry = IF impl = "HelperStartXorgUser" THEN {<<":", "0">>} ELSE {}
    /\ pipeRead = "open"
    /\ pipeWrite = "closed"
    /\ rawLine = <<>>
    /\ chan = <<>>
    /\ startResult = "none"
    /\ stopCalls = 0
    /\ log = <<>>

ReadLine ==
    /\ pc = "readLine"
    /\ \E data \in WideBytes, eof \in BOOLEAN, cookieOk \in BOOLEAN :
          LET w0 == World(TRUE, FALSE)
              in == [data |-> data, eof |-> eof]
          IN  /\ (indexOf(data, NL) >= 0 => eof)
              /\ (impl = "HelperStartXorgUser" => cookieOk)
              /\ IF readBlocks(w0, in) THEN Commit(w0, "blocked")
                 ELSE LET w == handshake(w0, readLine(data), cookieOk)
                      IN  Commit(w, IF w.ret THEN "startDisplayCommand" ELSE "failed")
    /\ UNCHANGED exitCode

SpecHandshake == InitHandshake /\ [][ReadLine]_vars

(***************************************************************************)
(* XorgUserDisplayServer: the daemon's object for a display server that    *)
(* the helper runs.  It is used through start(), stop() and its destructor.*)
(***************************************************************************)
\* how many calls are made on one object
MaxCalls == 6

\* no helper process is part of the run
HelperNone ==
    /\ pc = "none"
    /\ impl = "helper_x11"
    /\ serverCmd = ""
    /\ clientCmd = ""
    /\ helper = FALSE
    /\ startupPosted = FALSE
    /\ m_fd = NoFd
    /\ m_display = <<>>
    /\ m_serverProcess = "nullptr"
    /\ m_clientProcess = "nullptr"
    /\ proc = [p \in Procs |-> NoProc]
    /\ exitFlag = FALSE
    /\ returnCode = 0
    /\ exitCode = 0
    /\ authFile = FALSE
    /\ authEntry = {}
    /\ pipeRead = "none"
    /\ pipeWrite = "none"
    /\ rawLine = <<>>
    /\ chan = <<>>
    /\ startResult = "none"
    /\ stopCalls = 0
    /\ log = <<>>

\* the object as its methods see it, and what the call returns
DisplayServer == [m_started |-> m_started, emitted |-> emitted, ret |-> "void"]

\* start() without its check of the flag
XorgUserDisplayServer_start_unguarded(d) ==
    [d EXCEPT !.m_started = TRUE, !.emitted = Append(@, "started"), !.ret = "true"]

XorgUserDisplayServer_start(d) ==
    IF d.m_started THEN [d EXCEPT !.ret = "false"]
    ELSE [d EXCEPT !.m_started = TRUE, !.emitted = Append(@, "started"), !.ret = "true"]

XorgUserDisplayServer_stop(d) ==
    IF ~d.m_started THEN d
    ELSE [d EXCEPT !.m_started = FALSE, !.emitted = Append(@, "stopped")]

\* the destructor has run
Destroyed == \E i \in DOMAIN calls : calls[i][1] = "~XorgUserDisplayServer"

DisplayServerCall(name, d) ==
    /\ m_started' = d.m_started
    /\ emitted' = d.emitted
    /\ calls' = Append(calls, <<name, d.ret>>)
    /\ UNCHANGED <<helperVars, loggerVars>>

DisplayServerStart ==
    /\ ~Destroyed
    /\ Len(calls) < MaxCalls
    /\ DisplayServerCall("start", XorgUserDisplayServer_start(DisplayServer))

DisplayServerStop ==
    /\ ~Destroyed
    /\ Len(calls) < MaxCalls
    /\ DisplayServerCall("stop", XorgUserDisplayServer_stop(DisplayServer))

\* ~XorgUserDisplayServer(): stop()
DisplayServerDestroy ==
    /\ ~Destroyed
    /\ Len(calls) < MaxCalls
    /\ DisplayServerCall("~XorgUserDisplayServer", XorgUserDisplayServer_stop(DisplayServer))

InitDisplayServer == HelperNone /\ DisplayServerNew /\ LoggerNew

NextDisplayServer == DisplayServerStart \/ DisplayServerStop \/ DisplayServerDestroy

SpecDisplayServer == InitDisplayServer /\ [][NextDisplayServer]_vars

(***************************************************************************)
(* MessageHandler: the Qt message handlers of the daemon, the helper and   *)
(* the greeter.  A string built from parts is the sequence of its parts.   *)
(***************************************************************************)
\* how many messages are logged
MaxMsgs == 2

MsgTypes == {"QtDebugMsg", "QtInfoMsg", "QtWarningMsg", "QtCriticalMsg", "QtFatalMsg"}
\* DaemonMessageHandler, HelperMessageHandler, GreeterMessageHandler
Prefixes == {"DAEMON: ", "HELPER: ", "GREETER: "}
Msgs == {"text"}
\* QDateTime::currentDateTime().toString("hh:mm:ss.zzz")
Timestamp == "hh:mm:ss.zzz"

\* what the process finds around it when a message is logged: built with
\* HAVE_JOURNALD, sd_booted(), SDDM_JOURNAL_ENABLED set, how open("/dev/tty") ends,
\* isatty(STDIN_FILENO), and whether the log file can be opened; what the code
\* does not get to ask is left at its first value
LogEnvs ==
    {env \in [haveJournald : BOOLEAN, sdBooted : BOOLEAN, envSet : BOOLEAN,
              tty : {"opened", "ENOENT", "EPERM", "ENXIO", "EACCES"}, isatty : BOOLEAN,
              appendOk : BOOLEAN, truncOk : BOOLEAN] :
        /\ ~env.haveJournald => ~env.sdBooted
        /\ ~env.sdBooted => ~env.envSet
        /\ (~env.sdBooted \/ env.envSet) => env.tty = "opened"
        /\ env.tty \in {"opened", "EACCES"} => ~env.isatty
        /\ env.appendOk => env.truncOk}

\* the statics as the functions see them, and what the call returns
Logger ==
    [journalEnabled |-> journalEnabled, fileIsOpen |-> fileIsOpen, fileOpens |-> fileOpens,
     journalOut |-> journalOut, fileOut |-> fileOut, stdOut |-> stdOut, ret |-> FALSE]

\* the syslog priority journaldLogger() gives a message
priority(type) ==
    CASE type = "QtDebugMsg" -> "LOG_DEBUG"
      [] type = "QtWarningMsg" -> "LOG_WARNING"
      [] type = "QtCriticalMsg" -> "LOG_CRIT"
      [] type = "QtFatalMsg" -> "LOG_ALERT"
      [] OTHER -> "LOG_INFO"

journaldLogger(l, type, msg) ==
    [l EXCEPT !.journalOut = Append(@, <<priority(type), msg>>)]

\* the tag standardLogger() gives a message
logPriority(type) ==
    CASE type = "QtWarningMsg" -> "(WW)"
      [] type \in {"QtCriticalMsg", "QtFatalMsg"} -> "(EE)"
      [] OTHER -> "(II)"

\* file.open(Append | WriteOnly), and file.open(Truncate | WriteOnly) when it fails
openFile(l, env) ==
    IF env.appendOk
    THEN [l EXCEPT !.fileIsOpen = TRUE, !.fileOpens = Append(@, <<"Append", "true">>)]
    ELSE LET l1 == [l EXCEPT !.fileOpens = Append(@, <<"Append", "false">>)]
         IN  IF env.truncOk
             THEN [l1 EXCEPT !.fileIsOpen = TRUE,
                             !.fileOpens = Append(@, <<"Truncate", "true">>)]
             ELSE [l1 EXCEPT !.fileOpens = Append(@, <<"Truncate", "false">>)]

\* standardLogger() that opens the file for every message
standardLogger_reopens(l, type, msg, env) ==
    LET l1 == openFile(l, env)
        logMessage == <<Timestamp, logPriority(type), msg>>
    IN  IF l1.fileIsOpen THEN [l1 EXCEPT !.fileOut = Append(@, logMessage)]
        ELSE [l1 EXCEPT !.stdOut = Append(@, logMessage)]

standardLogger(l, type, msg, env) ==
    LET l1 == IF ~l.fileIsOpen THEN openFile(l, env) ELSE l
        logMessage == <<Timestamp, logPriority(type), msg>>
    IN  IF l1.fileIsOpen THEN [l1 EXCEPT !.fileOut = Append(@, logMessage)]
        ELSE [l1 EXCEPT !.stdOut = Append(@, logMessage)]

hasConsoleAttached(env) ==
    IF env.envSet THEN FALSE
    ELSE IF env.tty = "opened" THEN TRUE
    ELSE IF env.tty \in {"ENOENT", "EPERM", "ENXIO"} THEN env.isatty
    ELSE FALSE

\* the static const is computed by the first call only
isJournalEnabled(l, env) ==
    IF ~env.haveJournald THEN [l EXCEPT !.journalEnabled = "false", !.ret = FALSE]
    ELSE LET l1 == IF l.journalEnabled = "unset"
                   THEN [l EXCEPT !.journalEnabled =
                                      IF env.sdBooted /\ ~hasConsoleAttached(env)
                                      THEN "true" ELSE "false"]
                   ELSE l
         IN  [l1 EXCEPT !.ret = (l1.journalEnabled = "true")]

messageHandler(l, type, prefix, msg, env) ==
    LET l1 == isJournalEnabled(l, env)
    IN  IF l1.ret THEN journaldLogger(l1, type, <<msg>>)
        ELSE standardLogger(l1, type, <<prefix, msg>>, env)

\* qDebug(), qInfo(), qWarning(), qCritical() or qFatal() somewhere in the program
LogMessage ==
    /\ Len(sent) < MaxMsgs
    /\ \E type \in MsgTypes, prefix \in Prefixes, msg \in Msgs, env \in LogEnvs :
          LET l == messageHandler(Logger, type, prefix, msg, env)
          IN  /\ \A i \in DOMAIN sent : sent[i].haveJournald = env.haveJournald
              /\ sent' = Append(sent, [type |-> type, prefix |-> prefix, msg |-> msg,
                                       haveJournald |-> env.haveJournald])
              /\ journalEnabled' = l.journalEnabled
              /\ fileIsOpen' = l.fileIsOpen
              /\ fileOpens' = l.fileOpens
              /\ journalOut' = l.journalOut
              /\ fileOut' = l.fileOut
              /\ stdOut' = l.stdOut
    /\ UNCHANGED <<helperVars, displayServerVars>>

InitLogger == HelperNone /\ DisplayServerNew /\ LoggerNew

SpecLogger == InitLogger /\ [][LogMessage]_vars

(***************************************************************************)
(* Reading the history                                                     *)
(***************************************************************************)
Has(kind, who) == \E i \in DOMAIN log : log[i] = <<kind, who>>

Count(kind, who) == Cardinality({i \in DOMAIN log : log[i] = <<kind, who>>})

\* the places of an entry in the history
At(kind, who) == {i \in DOMAIN log : log[i] = <<kind, who>>}

\* every e1 comes before every e2, and both are there
AllBefore(k1, w1, k2, w2) ==
    /\ Has(k1, w1)
    /\ Has(k2, w2)
    /\ \A i \in At(k1, w1), j \in At(k2, w2) : i < j

\* some e1 comes before the first e2
SomeBefore(k1, w1, k2, w2) ==
    \E i \in At(k1, w1) : \A j \in At(k2, w2) : i < j

\* readLine() has returned
ReadDone == Has("handshake", "ok") \/ Has("handshake", "malformed")

IsDigitLine(line) ==
    /\ Len(line) >= 2
    /\ line[Len(line)] = NL
    /\ \A i \in 1..(Len(line) - 1) : line[i] \in Digits

C3_AuthFileLifetime ==
    startResult = "true" =>
        /\ stopCalls = 0 => authFile
        /\ stopCalls > 0 => ~authFile

C3_Witness ==
    /\ startResult = "true"
    /\ stopCalls > 0
    /\ ~authFile
    /\ Has("authFileAtStart", "present")
    /\ Has("setup", "fail")

(***************************************************************************)
(* C4                                                                      *)
(***************************************************************************)
\* the client exited with a non-zero code while the session ran and the server lived
ClientFault ==
    /\ startResult = "true"
    /\ Has("finished", "client")
    /\ proc["client"].code # 0
    /\ \A i \in At("finished", "client") :
          /\ \A j \in At("stop", "begin") : i < j
          /\ \A j \in At("finished", "server") : i < j

\* C4: when the client exits with a non-zero code while the server lives and the
\* session runs, quit is requested and stop() runs the whole teardown in order:
\* terminate on the client (nothing is sent, it is gone), terminate on the server
\* and the wait for it, one run of the teardown script, one removal of the
\* authority file; both handles are cleared.
C4_ClientFaultTeardown ==
    ClientFault =>
        /\ pc = "exec" => exitFlag
        /\ pc # "exec" =>
              /\ pc = "exited"
              /\ stopCalls = 1
              /\ Count("terminate", "client") = 1
              /\ ~Has("SIGTERM", "client") /\ ~Has("SIGKILL", "client")
              /\ AllBefore("stop", "begin", "terminate", "client")
              /\ \E t \in At("terminate", "server") :
                    /\ \A c \in At("terminate", "client") : c < t
                    /\ \E v \in At("waitDone", "server") \cup At("waitTimeout", "server") :
                          /\ t < v
                          /\ \A r \in At("spawn", "displayStopScript")
                                        \cup At("spawnFail", "displayStopScript") : v < r
              /\ Count("spawn", "displayStopScript")
                    + Count("spawnFail", "displayStopScript") = 1
              /\ Count("remove", "authFile") = 1
              /\ \A r \in At("spawn", "displayStopScript")
                            \cup At("spawnFail", "displayStopScript") :
                    \A x \in At("remove", "authFile") : r < x
              /\ AllBefore("remove", "authFile", "stop", "end")
              /\ m_clientProcess = "nullptr"
              /\ m_serverProcess = "nullptr"

C4_Witness ==
    /\ ClientFault
    /\ pc = "exited"
    /\ proc["client"].code = 1
    /\ Has("waitTimeout", "server")
    /\ Has("spawn", "displayStopScript")

(***************************************************************************)
(* C5                                                                      *)
(***************************************************************************)
\* the server or the client exited non-zero or abnormally while the session ran
FaultWhileRunning ==
    /\ startResult = "true"
    /\ \E p \in {"server", "client"} :
          /\ Has("finished", p)
          /\ (proc[p].code # 0 \/ proc[p].status # "NormalExit")
          /\ \A i \in At("finished", p) : \A j \in At("stop", "begin") : i < j

\* C5: after a fault while the session runs, the exit code requested from the event
\* loop, and the exit status of the helper, is not 0.
C5_FaultExitsNonZero ==
    FaultWhileRunning =>
        /\ (pc = "exec" /\ exitFlag) => returnCode # 0
        /\ pc = "exited" => exitCode # 0

(***************************************************************************)
(* C6                                                                      *)
(***************************************************************************)
\* C6: over any sequence of stop() calls the teardown script is run at most once
\* and the authority file is removed at most once, and a stop() that finds both
\* handles null changes nothing of the session and spawns nothing.
C6_StopIdempotent ==
    /\ [](/\ Count("spawn", "displayStopScript")
                + Count("spawnFail", "displayStopScript") <= 1
          /\ Count("remove", "authFile") <= 1)
    /\ [][(/\ stopCalls' = stopCalls + 1
           /\ m_clientProcess = "nullptr"
           /\ m_serverProcess = "nullptr")
          => /\ UNCHANGED <<proc, authFile, authEntry, m_clientProcess, m_serverProcess,
                            m_display, chan, exitFlag, returnCode, startResult>>
             /\ log' = log \o << <<IF pc' = "exec" THEN "callStop" ELSE "aboutToQuit", "app">>,
                                 <<"stop", "begin">>, <<"stop", "end">> >>]_vars

C6_Witness ==
    /\ stopCalls = 2
    /\ startResult = "true"
    /\ Count("remove", "authFile") = 1
    /\ Count("spawn", "displayStopScript") = 1

(***************************************************************************)
(* C7                                                                      *)
(***************************************************************************)
\* C7: stop() never calls kill() on a server or client that has exited by the end of
\* the grace period, also when it had exited before stop() asked it to terminate.
C7_NoKillAfterExit ==
    \A p \in {"server", "client"} :
        (Has("terminate", p) /\ ~Has("waitTimeout", p)) => ~Has("kill", p)

(***************************************************************************)
(* C8                                                                      *)
(***************************************************************************)
\* C8: a server or client that ignores the SIGTERM of stop() for the whole grace
\* period is killed exactly once by stop(), after the terminate() and after the
\* wait has timed out.
C8_OneKillAfterGrace ==
    \A p \in {"server", "client"} :
        Has("waitTimeout", p) =>
            /\ Count("waitTimeout", p) = 1
            /\ Count("kill", p) = 1
            /\ Count("SIGKILL", p) = 1
            /\ SomeBefore("SIGTERM", p, "waitTimeout", p)
            /\ AllBefore("waitTimeout", p, "kill", p)
            /\ AllBefore("kill", p, "stop", "end")

C8_Witness ==
    /\ Has("waitTimeout", "client")
    /\ Has("waitTimeout", "server")
    /\ Has("SIGKILL", "client")
    /\ Has("SIGKILL", "server")

(***************************************************************************)
(* C9                                                                      *)
(***************************************************************************)
\* C9: when the line read is one or more decimal digits and a line terminator, the
\* display name is ":" followed by exactly those digits.
C9_DigitsResolve ==
    (ReadDone /\ IsDigitLine(rawLine)) =>
        /\ Has("handshake", "ok")
        /\ m_display = <<":">> \o SubSeq(rawLine, 1, Len(rawLine) - 1)
        /\ Len(m_display) = Len(rawLine)
        /\ \A i \in 2..Len(m_display) : m_display[i] \in Digits

C9_Witness ==
    /\ ReadDone
    /\ rawLine = <<"7", "0", NL>>
    /\ m_display = <<":", "7", "0">>

(***************************************************************************)
(* C10                                                                     *)
(***************************************************************************)
\* C10: when the server command or the client command is missing, main() returns
\* 127 before it creates the helper: nothing is spawned and no authority is set up.
C10_MissingCommand ==
    (pc # "main" /\ (serverCmd = "" \/ clientCmd = "")) =>
        /\ pc = "exited"
        /\ exitCode = NotManual
        /\ ~helper
        /\ ~startupPosted
        /\ Len(log) = 1
        /\ \A p \in Procs : proc[p] = NoProc
        /\ authEntry = {}

C10_Witness ==
    /\ pc = "exited"
    /\ serverCmd = "X"
    /\ clientCmd = ""
    /\ exitCode = NotManual

(***************************************************************************)
(* C11                                                                     *)
(***************************************************************************)
\* startServer() has returned true: the handshake went through and the credential
\* of the session is written
ServerStarted ==
    /\ Has("handshake", "ok")
    /\ Has("addCookie", "ok")

\* C11: the display name is written to the control channel exactly once when an fd
\* other than -1 was given and startServer() went through, never when none was
\* given, and never on a path where the handshake failed.
C11_ReportOncePerFd ==
    /\ ServerStarted => (IF m_fd # NoFd THEN Len(chan) = 1 ELSE chan = <<>>)
    /\ ~ServerStarted => chan = <<>>

(***************************************************************************)
(* C12                                                                     *)
(***************************************************************************)
\* C12 as stated: what is written to the control channel is the line read from the
\* handshake pipe, byte for byte.
C12_Original ==
    \A i \in DOMAIN chan : chan[i] = rawLine

\* C12 amended: what is written to the control channel is the display name: ":"
\* followed by the line read without its last byte, with no terminator.
C12_ReportsDisplayName ==
    \A i \in DOMAIN chan :
        /\ chan[i] = <<":">> \o SubSeq(rawLine, 1, Len(rawLine) - 1)
        /\ chan[i] = m_display
        /\ Len(chan[i]) = Len(rawLine)

C12_Witness ==
    /\ rawLine = <<"7", "0", NL>>
    /\ chan = << <<":", "7", "0">> >>
    /\ m_fd = 5

(***************************************************************************)
(* C13                                                                     *)
(***************************************************************************)
\* C13: while no server or client has finished, no signal has come and start() has
\* not failed, nothing asks the application to quit, however the cursor command
\* and the display scripts end.
C13_AuxFaultIgnored ==
    (/\ ~Has("finished", "server")
     /\ ~Has("finished", "client")
     /\ ~Has("signal", "app")
     /\ startResult # "false")
        => (~exitFlag /\ ~Has("quit", "app"))

(***************************************************************************)
(* C14                                                                     *)
(***************************************************************************)
\* C14 as stated: once a client was spawned, every terminate() of the server comes
\* after a terminate() of the client.
C14_Original ==
    Has("spawn", "client") =>
        \A i \in At("terminate", "server") : \E j \in At("terminate", "client") : j < i

\* C14 amended: once a client was spawned, every terminate() of the server comes
\* after a terminate() of the client, except the one the helper-x11 class sends
\* from the finished() handler of a client that has ended by itself.
C14_ClientFirstInStop ==
    Has("spawn", "client") =>
        \A i \in At("terminate", "server") :
            \/ \E j \in At("terminate", "client") : j < i
            \/ /\ impl = "helper_x11"
               /\ i > 1
               /\ log[i - 1] = <<"sessionFinished", "client">>

C14_Witness ==
    /\ impl = "helper_x11"
    /\ Has("sessionFinished", "client")
    /\ Count("terminate", "server") = 2
    /\ Has("terminate", "client")
    /\ pc = "exited"

(***************************************************************************)
(* C15                                                                     *)
(***************************************************************************)
\* the environment of the cursor command and setup script, or of the client, is built
EnvAt == At("env", "display") \cup At("env", "client")

SetupAt == At("setup", "ok") \cup At("setup", "fail")

\* one addCookie(), a successful one, after setup() and before every environment
IssuedOnceInOrder ==
    /\ Count("addCookie", "ok") = 1
    /\ ~Has("addCookie", "fail")
    /\ \A c \in At("addCookie", "ok") :
          /\ \E s \in SetupAt : s < c
          /\ \A e \in EnvAt : c < e

C16_SetupFailureFailsStart ==
    Has("setup", "fail") =>
        /\ ~Has("spawn", "server")
        /\ ~Has("spawnFail", "server")
        /\ startResult # "true"
        /\ pc \in {"exec", "exited", "crashed"} => startResult = "false"

(***************************************************************************)
(* C17                                                                     *)
(***************************************************************************)
\* C17: when start() has returned false, the code asked of the event loop, and the
\* exit status of the helper, is 127, the one main() returns for a bad command line.
C17_StartFailureExitCode ==
    startResult = "false" =>
        /\ pc = "exec" => (exitFlag /\ returnCode = NotManual)
        /\ pc = "exited" => exitCode = NotManual

(***************************************************************************)
(* C18                                                                     *)
(***************************************************************************)
\* the teardown script is started, or fails to start
ScriptStartAt == At("spawn", "displayStopScript") \cup At("spawnFail", "displayStopScript")

\* the wait of stop() for the server returns
ServerWaitAt ==
    At("waitDone", "server") \cup At("waitTimeout", "server") \cup At("waitNotRunning", "server")

\* C18: the teardown script is started only after the server was asked to terminate
\* and the wait for it is over, with the kill() in between when the wait returned
\* false; the authority file is removed only after the script was started and has
\* finished or was killed; both happen only when a server handle was recorded, and
\* then neither the server nor the script is running any more.
C18_TeardownOrder ==
    /\ \A r \in ScriptStartAt :
          \E t \in At("terminate", "server"), v \in ServerWaitAt :
              /\ t < v
              /\ v < r
              /\ log[v][1] # "waitDone" => \E k \in At("kill", "server") : v < k /\ k < r
    /\ \A x \in At("remove", "authFile") :
          \E r \in ScriptStartAt :
              /\ r < x
              /\ log[r][1] = "spawn" =>
                    \E d \in At("waitDone", "displayStopScript")
                               \cup At("kill", "displayStopScript") : r < d /\ d < x
    /\ (ScriptStartAt # {} \/ Has("remove", "authFile")) =>
          /\ Has("spawn", "server")
          /\ proc["server"].os = "dead"
          /\ proc["displayStopScript"].os # "running"

C18_Witness ==
    /\ Has("waitTimeout", "server")
    /\ Has("SIGKILL", "server")
    /\ Has("waitTimeout", "displayStopScript")
    /\ Has("remove", "authFile")
    /\ ~authFile
    /\ pc = "exited"

(***************************************************************************)
(* C19                                                                     *)
(***************************************************************************)
\* the client command was run, or a client handle or child exists
ClientTried ==
    \/ Has("spawn", "client")
    \/ Has("spawnFail", "client")
    \/ m_clientProcess # "nullptr"
    \/ proc["client"].os # "none"

\* C19: in a session at most one server and at most one client is ever spawned, a
\* handle always points to a child that was spawned, and the client command is run
\* only after the server was spawned and a well-formed line was read from it.
C19_OneServerOneClient ==
    /\ Count("spawn", "server") + Count("spawnFail", "server") <= 1
    /\ Count("spawn", "client") + Count("spawnFail", "client") <= 1
    /\ m_serverProcess # "nullptr" => (Has("spawn", "server") /\ proc["server"].os # "none")
    /\ m_clientProcess # "nullptr" => (Has("spawn", "client") /\ proc["client"].os # "none")
    /\ ClientTried =>
          /\ AllBefore("spawn", "server", "handshake", "ok")
          /\ ~Has("handshake", "malformed")
          /\ Len(rawLine) >= MinLine
          /\ \A h \in At("handshake", "ok") :
                \A c \in At("spawn", "client") \cup At("spawnFail", "client") : h < c

C19_Witness ==
    /\ startResult = "true"
    /\ proc["server"].os = "running"
    /\ proc["client"].os = "running"
    /\ m_serverProcess = "server"
    /\ m_clientProcess = "client"

(***************************************************************************)
(* C20                                                                     *)
(***************************************************************************)
\* C20: once stop() has completed there is no authority file, here for the sessions
\* whose setup() went well, so that a file found after stop() is one the session
\* wrote.
C20_NoAuthFileAfterStop ==
    (stopCalls > 0 /\ Has("setup", "ok")) => ~authFile

(***************************************************************************)
(* C21                                                                     *)
(***************************************************************************)
\* C21: when readLine() is called the server was spawned and the helper has closed
\* its copy of the write end; a server that closes its end or exits without a line
\* makes the read return what there is, never block, and with nothing written
\* start() returns false.
C21_WriteEndClosedBeforeRead ==
    /\ (Has("read", "line") \/ Has("read", "endOfData") \/ Has("read", "stalled")) =>
          /\ pipeWrite = "closed"
          /\ \E s \in At("spawn", "server") :
                \A r \in At("read", "line") \cup At("read", "endOfData")
                           \cup At("read", "stalled") : s < r
    /\ Has("read", "endOfData") =>
          /\ pc # "blocked"
          /\ ReadDone
          /\ rawLine = <<>> => (Has("handshake", "malformed") /\ startResult = "false")

C21_Witness ==
    /\ Has("read", "endOfData")
    /\ rawLine = <<>>
    /\ startResult = "false"
    /\ Has("spawn", "server")
    /\ pc = "exited"

(***************************************************************************)
(* C22                                                                     *)
(***************************************************************************)
\* C22: when the server neither writes a line nor closes its end, readLine() does
\* not return: start() has no result, the read is the last thing the helper did, no
\* exit was asked for, stop() has not run and no further process was started.
C22_StalledReadBlocks ==
    Has("read", "stalled") =>
        /\ pc = "blocked"
        /\ startResult = "none"
        /\ log[Len(log)] = <<"read", "stalled">>
        /\ ~ReadDone
        /\ ~exitFlag
        /\ stopCalls = 0
        /\ m_clientProcess = "nullptr"
        /\ proc["server"].os = "running"
        /\ pipeRead = "open"

C22_Witness ==
    /\ pc = "blocked"
    /\ Has("read", "stalled")
    /\ Has("spawn", "server")
    /\ m_serverProcess = "server"

(***************************************************************************)
(* C23                                                                     *)
(***************************************************************************)
\* C23: once startServer() has returned after it created the pipe, the read end of
\* the pipe is closed.
C23_ReadEndClosed ==
    (pipeRead # "none" /\ pc \notin {"startServer", "blocked"}) => pipeRead = "closed"

(***************************************************************************)
(* C24                                                                     *)
(***************************************************************************)
\* the client ended by itself while the session ran: its finished() came after
\* start() had returned true and before any stop()
ClientExitedWhileRunning ==
    /\ startResult = "true"
    /\ Has("finished", "client")
    /\ \A i \in At("finished", "client") : \A j \in At("stop", "begin") : i < j

\* C24: when the client has ended by itself while the session ran, with whatever
\* exit code, the application has been asked to quit, and by the time the helper
\* exits the server was asked to terminate and is not running.
C24_ClientExitStopsSession ==
    ClientExitedWhileRunning =>
        /\ pc = "exec" => exitFlag
        /\ pc = "exited" => (Has("terminate", "server") /\ proc["server"].os # "running")

(***************************************************************************)
(* C25                                                                     *)
(***************************************************************************)
\* C25: the finished() handler that startClient() of the helper-x11 class connects
\* never runs while m_serverProcess is null.
C25_HandlerNeedsServerHandle ==
    ~Has("nullDeref", "server")

(***************************************************************************)
(* C26                                                                     *)
(***************************************************************************)
\* started and stopped alternate, started first
Alternates ==
    \A i \in DOMAIN emitted : emitted[i] = IF i % 2 = 1 THEN "started" ELSE "stopped"

\* C26: the signals of a XorgUserDisplayServer alternate, started first, and
\* m_started is true exactly when the last signal was started; start() on a started
\* object returns false and emits nothing, start() otherwise returns true and emits
\* started, stop() (also the one of the destructor) on an object not started emits
\* nothing, stop() otherwise emits stopped.
C26_StartStopAlternate ==
    /\ [](Alternates /\ (m_started <=> Len(emitted) % 2 = 1))
    /\ [][Len(calls') = Len(calls) + 1 =>
            LET c == calls'[Len(calls')]
            IN  /\ (c[1] = "start" /\ m_started) =>
                      (c[2] = "false" /\ emitted' = emitted /\ m_started')
                /\ (c[1] = "start" /\ ~m_started) =>
                      (c[2] = "true" /\ emitted' = Append(emitted, "started") /\ m_started')
                /\ (c[1] # "start" /\ ~m_started) =>
                      (emitted' = emitted /\ ~m_started')
                /\ (c[1] # "start" /\ m_started) =>
                      (emitted' = Append(emitted, "stopped") /\ ~m_started')]_vars

C26_Witness ==
    /\ emitted = <<"started", "stopped", "started">>
    /\ m_started
    /\ \E i \in DOMAIN calls : calls[i] = <<"start", "false">>
    /\ \E i \in DOMAIN calls : i > 1 /\ calls[i][1] = "stop" /\ calls[i - 1][1] = "stop"

(***************************************************************************)
(* C27                                                                     *)
(***************************************************************************)
\* the line standardLogger() makes of the i-th message, with its prefix
StandardLine(i) ==
    <<Timestamp, logPriority(sent[i].type), <<sent[i].prefix, sent[i].msg>> >>

\* the entry journaldLogger() makes of the i-th message, without a prefix
JournalEntry(i) == <<priority(sent[i].type), <<sent[i].msg>> >>

OpensThat(result) == {i \in DOMAIN fileOpens : fileOpens[i][2] = result}

\* C27: every message is in exactly one sink: with the journal enabled all are in
\* the journal, without a prefix, and the log file is never touched; otherwise the
\* messages logged while the file could not be opened are on stdout, one for every
\* two failed open() calls, and all later ones are in the file, each with its
\* prefix; the file is opened with success at most once, by the last open() made.
C27_OneSinkPerMessage ==
    /\ Len(journalOut) + Len(fileOut) + Len(stdOut) = Len(sent)
    /\ journalEnabled = "unset" <=> sent = <<>>
    /\ journalEnabled = "true" =>
          /\ journalOut = [i \in DOMAIN sent |-> JournalEntry(i)]
          /\ fileOpens = <<>>
    /\ journalEnabled = "false" =>
          /\ journalOut = <<>>
          /\ stdOut \o fileOut = [i \in DOMAIN sent |-> StandardLine(i)]
    /\ Cardinality(OpensThat("true")) <= 1
    /\ fileIsOpen <=> OpensThat("true") # {}
    /\ OpensThat("true") \subseteq {Len(fileOpens)}
    /\ fileOut # <<>> => fileIsOpen
    /\ Cardinality(OpensThat("false")) \in {2 * Len(stdOut), 2 * Len(stdOut) + 1}
    /\ Cardinality(OpensThat("false")) = 2 * Len(stdOut) + 1
          => fileOpens[Len(fileOpens)] = <<"Truncate", "true">>

C27_Witness ==
    /\ Len(stdOut) = 1
    /\ Len(fileOut) = 1
    /\ fileOpens = <<<<"Append", "false">>, <<"Truncate", "false">>, <<"Append", "true">>>>
    /\ fileOut[1][3][1] = "HELPER: "

====
